---- MODULE Spec2Model ----
(***************************************************************************)
(* Consensus-set rolling update of kubeblocks:                             *)
(* controllers/apps/clusterversion_controller.go, package consensusset.    *)
(* One pass of handleConsensusSetUpdate reconciles the persisted           *)
(* ConsensusSetStatus from the ready pods, propagates leader/followers to  *)
(* the env config maps, and, once the stateful set has converged, builds   *)
(* an update plan (a tree of steps) and walks it one step.                 *)
(***************************************************************************)
EXTENDS Integers, Sequences, FiniteSets, TLC

\* ------------------------------------------------------------------ bounds
\* number of replicas of the stateful set (pods with ordinals 0..MaxReplicas-1)
MaxReplicas == 3
\* highest stateful set generation (each spec update makes a new revision)
MaxGeneration == 2
\* number of environment disturbances in one behaviour
MaxDisturb == 1
MaxFollowerRoles == 2
\* the ClusterVersion objects that refer to the ClusterDefinition
MaxClusterVersions == 2

\* ------------------------------------------------------- program constants
leaderPriority == 32
followerReadWritePriority == 16
followerReadonlyPriority == 8
followerNonePriority == 4
learnerPriority == 2
emptyPriority == 1

roleLeader == "Leader"
roleFollower == "Follower"
roleLearner == "Learner"

\* appsv1alpha1.AccessMode
AccessNone == "None"
AccessReadonly == "Readonly"
AccessReadWrite == "ReadWrite"

\* appsv1alpha1.UpdateStrategy
SerialStrategy == "Serial"
ParallelStrategy == "Parallel"
BestEffortParallelStrategy == "BestEffortParallel"
Strategies == {SerialStrategy, ParallelStrategy, BestEffortParallelStrategy}

\* util.ComponentStatusDefaultPodName
ComponentStatusDefaultPodName == "Unknown"

\* ------------------------------------------------------------ the inputs
Ordinals == 0 .. (MaxReplicas - 1)

\* pod names are <statefulset>-<ordinal>
PodName(i) == "pod-" \o ToString(i)
PodNames == {PodName(i) : i \in Ordinals}

\* intctrlutil.GetParentNameAndOrdinal: the ordinal parsed back from the name
OrdinalOfName == [n \in PodNames |-> CHOOSE i \in Ordinals : PodName(i) = n]
GetOrdinal(name) == OrdinalOfName[name]

\* strings.Compare(a, b) < 0 on pod names (one-digit ordinals)
NameLess(a, b) == GetOrdinal(a) < GetOrdinal(b)

\* the role definition of the component: a leader, two follower roles with
\* different access modes, and a learner
ConsensusSpecOf(strategy) ==
    [leader |-> [name |-> "leader", accessMode |-> AccessReadWrite],
     followers |-> << [name |-> "follower", accessMode |-> AccessReadWrite],
                      [name |-> "readonly", accessMode |-> AccessReadonly] >>,
     learner |-> << [name |-> "learner", accessMode |-> AccessReadonly] >>,
     updateStrategy |-> strategy]

\* role labels a pod can carry: the roles of the spec, no label, an undefined one
RoleLabels == {"", "leader", "follower", "readonly", "learner", "x"}

\* ------------------------------------------------------------ Go helpers
\* m[k] = v on a Go map
MapPut(m, k, v) == [x \in (DOMAIN m) \cup {k} |-> IF x = k THEN v ELSE m[x]]

\* m[k] on a map[string]int: the zero value when the key is missing
MapGetInt(m, k) == IF k \in DOMAIN m THEN m[k] ELSE 0

EmptyMap == [x \in {} |-> 0]

SeqToSet(s) == {s[i] : i \in 1 .. Len(s)}

\* ---------------------------------------------------- ComposeRolePriorityMap
\* mutant of PutFollowerPriority: the access mode is not looked at
PutFollowerPriorityFlat(m, follower) ==
    MapPut(m, follower.name, followerReadWritePriority)

PutFollowerPriority(m, follower) ==
    CASE follower.accessMode = AccessNone -> MapPut(m, follower.name, followerNonePriority)
      [] follower.accessMode = AccessReadonly -> MapPut(m, follower.name, followerReadonlyPriority)
      [] follower.accessMode = AccessReadWrite -> MapPut(m, follower.name, followerReadWritePriority)
      [] OTHER -> m

RECURSIVE PutFollowerPriorities(_, _)
\* for _, follower := range component.ConsensusSpec.Followers
PutFollowerPriorities(m, followers) ==
    IF followers = << >> THEN m
    ELSE PutFollowerPriorities(PutFollowerPriority(m, Head(followers)), Tail(followers))

\* component.ConsensusSpec == nil: a value without any field of a ConsensusSetSpec
NilConsensusSpec == [isNil |-> TRUE]

\* appsv1alpha1.DefaultLeader
DefaultLeaderRole == [name |-> "leader", accessMode |-> AccessReadWrite]

\* &appsv1alpha1.ConsensusSetSpec{Leader: appsv1alpha1.DefaultLeader}; the other
\* fields are zero values
DefaultConsensusSpec ==
    [leader |-> DefaultLeaderRole, followers |-> << >>, learner |-> << >>,
     updateStrategy |-> ""]

\* the component is passed by value: the default is set on the callee's copy
ComposeRolePriorityMap(component) ==
    LET spec == IF component.consensusSpec = NilConsensusSpec
                THEN DefaultConsensusSpec
                ELSE component.consensusSpec
        m0 == MapPut(EmptyMap, "", emptyPriority)
        m1 == MapPut(m0, spec.leader.name, leaderPriority)
        m2 == IF spec.learner # << >>
              THEN MapPut(m1, spec.learner[1].name, learnerPriority)
              ELSE m1
    IN PutFollowerPriorities(m2, spec.followers)

\* ----------------------------------------------------------------- SortPods
\* mutant of PodLess: the role priority is ignored
PodLessByOrdinal(a, b, rolePriorityMap) == a.ordinal < b.ordinal

\* the less function of SortPods
PodLess(a, b, rolePriorityMap) ==
    IF MapGetInt(rolePriorityMap, a.role) = MapGetInt(rolePriorityMap, b.role)
    THEN a.ordinal < b.ordinal
    ELSE MapGetInt(rolePriorityMap, a.role) < MapGetInt(rolePriorityMap, b.role)

RECURSIVE InsertPod(_, _, _)
\* stable insertion: p goes after every element that is not greater than it
InsertPod(sorted, p, rolePriorityMap) ==
    IF sorted = << >> THEN << p >>
    ELSE IF PodLess(p, Head(sorted), rolePriorityMap)
         THEN << p >> \o sorted
         ELSE << Head(sorted) >> \o InsertPod(Tail(sorted), p, rolePriorityMap)

RECURSIVE SortPods(_, _)
SortPods(podList, rolePriorityMap) ==
    IF podList = << >> THEN << >>
    ELSE InsertPod(SortPods(SubSeq(podList, 1, Len(podList) - 1), rolePriorityMap),
                   podList[Len(podList)], rolePriorityMap)

\* ------------------------------------------------------------ util.Plan
\* A plan is a tree of steps; steps[1] is plan.Start (it carries no object).
\* A step's NextSteps are indices into steps: the walker handles all of them
\* together and continues from the first one.
NilObj == [name |-> ""]
StartStep == 1
NewPlan == [steps |-> << [obj |-> NilObj, next |-> << >>] >>]

\* mutant of AppendStep: the new step replaces the steps already under start
AppendStepReplacing(plan, start, pod) ==
    LET n == Len(plan.steps) + 1
        withNext == [plan.steps EXCEPT ![start].next = << n >>]
    IN [steps |-> Append(withNext, [obj |-> pod, next |-> << >>])]

\* nextStep := &util.Step{Obj: pod}; start.NextSteps = append(start.NextSteps, nextStep)
AppendStep(plan, start, pod) ==
    LET n == Len(plan.steps) + 1
        withNext == [plan.steps EXCEPT ![start].next = Append(@, n)]
    IN [steps |-> Append(withNext, [obj |-> pod, next |-> << >>])]

RECURSIVE AppendSteps(_, _, _)
\* the loop "for _, pod := range podList { append a step under start }"
AppendSteps(plan, start, podList) ==
    IF podList = << >> THEN plan
    ELSE AppendSteps(AppendStep(plan, start, Head(podList)), start, Tail(podList))

\* mutant of AdvanceStart: start is never moved to the batch just appended
AdvanceStartNever(plan, start) == start

\* if len(start.NextSteps) > 0 { start = start.NextSteps[0] }
AdvanceStart(plan, start) ==
    IF Len(plan.steps[start].next) > 0 THEN plan.steps[start].next[1] ELSE start

\* mutant of SerialFrom: start is not moved to the step just appended
SerialFromUnchained(plan, start, podList) == AppendSteps(plan, start, podList)

RECURSIVE SerialFrom(_, _, _)
SerialFrom(plan, start, podList) ==
    IF podList = << >> THEN plan
    ELSE LET p1 == AppendStep(plan, start, Head(podList))
         IN SerialFrom(p1, Len(p1.steps), Tail(podList))

\* unknown -> empty -> learner -> followers(none->readonly->readwrite) -> leader
generateConsensusSerialPlan(plan, podList) == SerialFrom(plan, StartStep, podList)

\* unknown & empty & leader & followers & learner
generateConsensusParallelPlan(plan, podList) == AppendSteps(plan, StartStep, podList)

\* mutant of HalfOf: the first follower batch takes the larger half
HalfOfRoundedUp(followerCount) == (followerCount + 1) \div 2

\* end := followerCount / 2
HalfOf(followerCount) == followerCount \div 2

\* unknown & empty & learner & 1/2 followers -> 1/2 followers -> leader
generateConsensusBestEffortParallelPlan(plan, podList, rolePriorityMap) ==
    LET low == SelectSeq(podList,
                 LAMBDA p : MapGetInt(rolePriorityMap, p.role) <= learnerPriority)
        index == Len(low)
        plan1 == AppendSteps(plan, StartStep, low)
        start1 == AdvanceStart(plan1, StartStep)
        \* append 1/2 followers
        podList1 == SubSeq(podList, index + 1, Len(podList))
        followerCount == Len(SelectSeq(podList1,
                 LAMBDA p : MapGetInt(rolePriorityMap, p.role) < leaderPriority))
        end1 == HalfOf(followerCount)
        plan2 == AppendSteps(plan1, start1, SubSeq(podList1, 1, end1))
        start2 == AdvanceStart(plan2, start1)
        \* append the other 1/2 followers
        podList2 == SubSeq(podList1, end1 + 1, Len(podList1))
        end2 == followerCount - end1
        plan3 == AppendSteps(plan2, start2, SubSeq(podList2, 1, end2))
        start3 == AdvanceStart(plan3, start2)
        \* append leader
        podList3 == SubSeq(podList2, end2 + 1, Len(podList2))
    IN AppendSteps(plan3, start3, podList3)

\* the plan of generateConsensusUpdatePlan (its WalkFunc is WalkFunc below)
generateConsensusUpdatePlan(podList, component) ==
    LET rolePriorityMap == ComposeRolePriorityMap(component)
        sorted == SortPods(podList, rolePriorityMap)
        strategy == component.consensusSpec.updateStrategy
    IN CASE strategy = SerialStrategy -> generateConsensusSerialPlan(NewPlan, sorted)
         [] strategy = ParallelStrategy -> generateConsensusParallelPlan(NewPlan, sorted)
         [] strategy = BestEffortParallelStrategy ->
                generateConsensusBestEffortParallelPlan(NewPlan, sorted, rolePriorityMap)
         [] OTHER -> NewPlan

\* ----------------------------------------------------------------- WalkFunc
\* util.PodIsReady and util.GetPodRevision read the observation
PodIsReady(pod) == pod.ready
GetPodRevision(pod) == pod.revision

NoError == "nil"
DeleteError == "delete failed"
PatchError == "status patch failed"
PanicError == "panic: nil pointer dereference"
ConfigError == "config patch failed"

DeleteOK == "deleted"
DeleteNotFound == "not found"
DeleteFailed == "failed"

\* mutant of WalkFunc: the DeletionTimestamp is not looked at
WalkFuncIgnoringTermination(pod, updateRevision, outcome) ==
    IF GetPodRevision(pod) = updateRevision
    THEN [walked |-> ~PodIsReady(pod), err |-> NoError, issued |-> FALSE]
    ELSE IF outcome = DeleteFailed
         THEN [walked |-> FALSE, err |-> DeleteError, issued |-> TRUE]
         ELSE [walked |-> TRUE, err |-> NoError, issued |-> TRUE]

\* mutant of WalkFunc: a pod at the update revision is not waited for
WalkFuncIgnoringReadiness(pod, updateRevision, outcome) ==
    IF pod.terminating
    THEN [walked |-> TRUE, err |-> NoError, issued |-> FALSE]
    ELSE IF GetPodRevision(pod) = updateRevision
         THEN [walked |-> FALSE, err |-> NoError, issued |-> FALSE]
         ELSE IF outcome = DeleteFailed
              THEN [walked |-> FALSE, err |-> DeleteError, issued |-> TRUE]
              ELSE [walked |-> TRUE, err |-> NoError, issued |-> TRUE]

\* mutant of WalkFunc: the error of cli.Delete is dropped
WalkFuncDroppingError(pod, updateRevision, outcome) ==
    IF pod.terminating
    THEN [walked |-> TRUE, err |-> NoError, issued |-> FALSE]
    ELSE IF GetPodRevision(pod) = updateRevision
         THEN [walked |-> ~PodIsReady(pod), err |-> NoError, issued |-> FALSE]
         ELSE [walked |-> TRUE, err |-> NoError, issued |-> TRUE]

\* mutant of WalkFunc: not-found is an error like any other
WalkFuncNotFoundIsError(pod, updateRevision, outcome) ==
    IF pod.terminating
    THEN [walked |-> TRUE, err |-> NoError, issued |-> FALSE]
    ELSE IF GetPodRevision(pod) = updateRevision
         THEN [walked |-> ~PodIsReady(pod), err |-> NoError, issued |-> FALSE]
         ELSE IF outcome # DeleteOK
              THEN [walked |-> FALSE, err |-> DeleteError, issued |-> TRUE]
              ELSE [walked |-> TRUE, err |-> NoError, issued |-> TRUE]

\* mutant of WalkFunc: a pod whose delete was issued counts as settled
WalkFuncDeletedIsSettled(pod, updateRevision, outcome) ==
    IF pod.terminating
    THEN [walked |-> TRUE, err |-> NoError, issued |-> FALSE]
    ELSE IF GetPodRevision(pod) = updateRevision
         THEN [walked |-> ~PodIsReady(pod), err |-> NoError, issued |-> FALSE]
         ELSE IF outcome = DeleteFailed
              THEN [walked |-> FALSE, err |-> DeleteError, issued |-> TRUE]
              ELSE [walked |-> FALSE, err |-> NoError, issued |-> TRUE]

\* mutant of WalkFunc: a stale pod is waited for and never deleted
WalkFuncNeverDeleting(pod, updateRevision, outcome) ==
    IF pod.terminating
    THEN [walked |-> TRUE, err |-> NoError, issued |-> FALSE]
    ELSE IF GetPodRevision(pod) = updateRevision
         THEN [walked |-> ~PodIsReady(pod), err |-> NoError, issued |-> FALSE]
         ELSE [walked |-> TRUE, err |-> NoError, issued |-> FALSE]

\* The WalkFunc closure of generateConsensusUpdatePlan on one pod; outcome is
\* what cli.Delete answers should it be called.  walked = TRUE means the step
\* is not settled; issued says whether cli.Delete was called.
WalkFunc(pod, updateRevision, outcome) ==
    IF pod.terminating
    THEN [walked |-> TRUE, err |-> NoError, issued |-> FALSE]
    ELSE IF GetPodRevision(pod) = updateRevision
         THEN [walked |-> ~PodIsReady(pod), err |-> NoError, issued |-> FALSE]
         ELSE IF outcome = DeleteFailed
              THEN [walked |-> FALSE, err |-> DeleteError, issued |-> TRUE]
              ELSE [walked |-> TRUE, err |-> NoError, issued |-> TRUE]

\* --------------------------------------------------------- Plan.WalkOneStep
NewWalk == [complete |-> TRUE, err |-> NoError, shouldStop |-> FALSE,
            evaluated |-> << >>, issued |-> {}, removed |-> {}]

RECURSIVE WalkBatch(_, _, _, _, _)
\* one batch: WalkFunc on every step of it, in order; an error aborts at once
WalkBatch(plan, batch, updateRevision, outcomes, acc) ==
    IF batch = << >> THEN acc
    ELSE LET pod == plan.steps[Head(batch)].obj
             r == WalkFunc(pod, updateRevision, outcomes[pod.name])
             acc1 == [acc EXCEPT
                        !.evaluated = Append(@, pod.name),
                        !.issued = IF r.issued THEN @ \cup {pod.name} ELSE @,
                        !.removed = IF r.issued /\ outcomes[pod.name] = DeleteOK
                                    THEN @ \cup {pod.name} ELSE @,
                        !.shouldStop = @ \/ r.walked,
                        !.err = r.err]
         IN IF r.err # NoError
            THEN [acc1 EXCEPT !.complete = FALSE]
            ELSE WalkBatch(plan, Tail(batch), updateRevision, outcomes, acc1)

RECURSIVE WalkFrom(_, _, _, _, _)
WalkFrom(plan, start, updateRevision, outcomes, acc) ==
    IF Len(plan.steps[start].next) = 0 THEN acc
    ELSE LET acc1 == WalkBatch(plan, plan.steps[start].next, updateRevision, outcomes, acc)
         IN IF acc1.err # NoError THEN acc1
            ELSE IF acc1.shouldStop THEN [acc1 EXCEPT !.complete = FALSE]
            ELSE WalkFrom(plan, plan.steps[start].next[1], updateRevision, outcomes, acc1)

\* walks the plan from plan.Start: (complete, err) and what the walk did
WalkOneStep(plan, updateRevision, outcomes) ==
    WalkFrom(plan, StartStep, updateRevision, outcomes, NewWalk)

\* the batches of a plan, as the walker meets them: lists of pod names
RECURSIVE BatchesFrom(_, _)
BatchesFrom(plan, start) ==
    IF Len(plan.steps[start].next) = 0 THEN << >>
    ELSE << [i \in 1 .. Len(plan.steps[start].next) |->
                plan.steps[plan.steps[start].next[i]].obj.name] >>
         \o BatchesFrom(plan, plan.steps[start].next[1])

Batches(plan) == BatchesFrom(plan, StartStep)

\* ------------------------------------------------- composeConsensusRoleMap
\* roleMap[name] = consensusMemberExt{name, role, accessMode}; nothing is put
\* for an empty name or access mode
putConsensusMemberExt(roleMap, name, role, accessMode) ==
    IF name = "" \/ role = "" \/ accessMode = ""
    THEN roleMap
    ELSE MapPut(roleMap, name,
                [name |-> name, consensusRole |-> role, accessMode |-> accessMode,
                 podName |-> ""])

PutFollowerExt(roleMap, follower) ==
    putConsensusMemberExt(roleMap, follower.name, roleFollower, follower.accessMode)

RECURSIVE PutFollowerExts(_, _)
\* for _, follower := range componentDef.ConsensusSpec.Followers
PutFollowerExts(roleMap, followers) ==
    IF followers = << >> THEN roleMap
    ELSE PutFollowerExts(PutFollowerExt(roleMap, Head(followers)), Tail(followers))

\* componentDef.ConsensusSpec.Leader.Name and component.ConsensusSpec.UpdateStrategy
\* read through the pointer: a nil ConsensusSpec makes the pass panic there
NilDereference(componentDef) == componentDef.consensusSpec = NilConsensusSpec

composeConsensusRoleMap(componentDef) ==
    LET spec == componentDef.consensusSpec
        m1 == putConsensusMemberExt(EmptyMap, spec.leader.name, roleLeader,
                                    spec.leader.accessMode)
        m2 == PutFollowerExts(m1, spec.followers)
    IN IF spec.learner # << >>
       THEN putConsensusMemberExt(m2, spec.learner[1].name, roleLearner,
                                  spec.learner[1].accessMode)
       ELSE m2

\* ------------------------------------------------------ ConsensusSetStatus
\* Leader is a value, Followers a slice, Learner a pointer (<< >> is nil)
MemberOf(memberExt) ==
    [name |-> memberExt.name, pod |-> memberExt.podName,
     accessMode |-> memberExt.accessMode]

DefaultLeader ==
    [name |-> "", pod |-> ComponentStatusDefaultPodName, accessMode |-> AccessNone]

\* the initial status of a pass
InitialConsensusSetStatus ==
    [leader |-> DefaultLeader, followers |-> << >>, learner |-> << >>]

\* mutant of setConsensusSetStatusLeader: a Leader slot that is taken is kept
setConsensusSetStatusLeaderKeepingFirst(st, memberExt) ==
    IF st.leader.pod # ComponentStatusDefaultPodName
    THEN [status |-> st, needUpdate |-> FALSE]
    ELSE [status |-> [st EXCEPT !.leader = MemberOf(memberExt)], needUpdate |-> TRUE]

setConsensusSetStatusLeader(st, memberExt) ==
    IF st.leader.pod = memberExt.podName
    THEN [status |-> st, needUpdate |-> FALSE]
    ELSE [status |-> [st EXCEPT !.leader = MemberOf(memberExt)], needUpdate |-> TRUE]

RECURSIVE InsertMember(_, _)
InsertMember(sorted, m) ==
    IF sorted = << >> THEN << m >>
    ELSE IF NameLess(m.pod, Head(sorted).pod)
         THEN << m >> \o sorted
         ELSE << Head(sorted) >> \o InsertMember(Tail(sorted), m)

RECURSIVE SortFollowers(_)
\* sort.SliceStable(Followers, by Pod)
SortFollowers(members) ==
    IF members = << >> THEN << >>
    ELSE InsertMember(SortFollowers(SubSeq(members, 1, Len(members) - 1)),
                      members[Len(members)])

setConsensusSetStatusFollower(st, memberExt) ==
    IF \E i \in 1 .. Len(st.followers) : st.followers[i].pod = memberExt.podName
    THEN [status |-> st, needUpdate |-> FALSE]
    ELSE [status |-> [st EXCEPT !.followers =
                         SortFollowers(Append(@, MemberOf(memberExt)))],
          needUpdate |-> TRUE]

setConsensusSetStatusLearner(st, memberExt) ==
    LET learner == IF st.learner = << >>
                   THEN [name |-> "", pod |-> "", accessMode |-> ""]
                   ELSE st.learner[1]
    IN IF learner.pod = memberExt.podName
       THEN [status |-> [st EXCEPT !.learner = << learner >>], needUpdate |-> FALSE]
       ELSE [status |-> [st EXCEPT !.learner = << MemberOf(memberExt) >>],
             needUpdate |-> TRUE]

RECURSIVE ResetFollowers(_, _, _, _)
\* the range loop of resetConsensusSetStatusRole: index runs over the length
\* the slice had at the start, reading the backing array arr, whose first len
\* elements are the current slice; a match is cut out by shifting the tail left
ResetFollowers(arr, len, index, podName) ==
    IF index > Len(arr) THEN SubSeq(arr, 1, len)
    ELSE IF arr[index].pod = podName /\ index <= len
         THEN ResetFollowers(
                [i \in 1 .. Len(arr) |->
                    IF i >= index /\ i < len THEN arr[i + 1] ELSE arr[i]],
                len - 1, index + 1, podName)
         ELSE ResetFollowers(arr, len, index + 1, podName)

\* mutant of resetConsensusSetStatusRole: the pod keeps the slots it holds
resetConsensusSetStatusRoleKeeping(st, podName) == st

resetConsensusSetStatusRole(st, podName) ==
    [leader |-> IF st.leader.pod = podName THEN DefaultLeader ELSE st.leader,
     followers |-> ResetFollowers(st.followers, Len(st.followers), 1, podName),
     learner |-> IF st.learner # << >> /\ st.learner[1].pod = podName
                 THEN << >> ELSE st.learner]

\* mutant of setConsensusSetStatusRole: the pod is removed from its slots before
\* the role label is looked up
setConsensusSetStatusRoleResettingFirst(st, componentDef, role, podName) ==
    LET roleMap == composeConsensusRoleMap(componentDef)
        st1 == resetConsensusSetStatusRole(st, podName)
    IN IF role \notin DOMAIN roleMap
       THEN [status |-> st1, needUpdate |-> FALSE]
       ELSE LET memberExt == [roleMap[role] EXCEPT !.podName = podName]
            IN CASE memberExt.consensusRole = roleLeader ->
                        setConsensusSetStatusLeader(st1, memberExt)
                 [] memberExt.consensusRole = roleFollower ->
                        setConsensusSetStatusFollower(st1, memberExt)
                 [] memberExt.consensusRole = roleLearner ->
                        setConsensusSetStatusLearner(st1, memberExt)
                 [] OTHER -> [status |-> st1, needUpdate |-> FALSE]

setConsensusSetStatusRole(st, componentDef, role, podName) ==
    LET roleMap == composeConsensusRoleMap(componentDef)
    IN IF role \notin DOMAIN roleMap
       THEN [status |-> st, needUpdate |-> FALSE]
       ELSE LET memberExt == [roleMap[role] EXCEPT !.podName = podName]
                st1 == resetConsensusSetStatusRole(st, memberExt.podName)
            IN CASE memberExt.consensusRole = roleLeader ->
                        setConsensusSetStatusLeader(st1, memberExt)
                 [] memberExt.consensusRole = roleFollower ->
                        setConsensusSetStatusFollower(st1, memberExt)
                 [] memberExt.consensusRole = roleLearner ->
                        setConsensusSetStatusLearner(st1, memberExt)
                 [] OTHER -> [status |-> st1, needUpdate |-> FALSE]

RECURSIVE setConsensusSetStatusRoles(_, _, _)
setConsensusSetStatusRoles(st, componentDef, podList) ==
    IF podList = << >> THEN st
    ELSE LET pod == Head(podList)
             st1 == IF ~PodIsReady(pod) THEN st
                    ELSE setConsensusSetStatusRole(st, componentDef, pod.role,
                                                   pod.name).status
         IN setConsensusSetStatusRoles(st1, componentDef, Tail(podList))

\* mutant of StatusChanged: the two pointers are compared, not what they point to
StatusChangedByPointer(new, old) == TRUE

\* !cmp.Equal(newConsensusSetStatus, oldConsensusSetStatus); old is a pointer
\* read from the cluster status, << >> when it is nil
StatusChanged(new, old) == IF old = << >> THEN TRUE ELSE old[1] # new

\* -------------------------------------------------- updateConsensusRoleInfo
\* the leader and the comma-joined followers, read from the labels of all pods
RoleInfoStep(acc, pod, roleMap) ==
    IF pod.role \notin DOMAIN roleMap THEN acc
    ELSE CASE roleMap[pod.role].consensusRole = roleLeader ->
                 [acc EXCEPT !.leader = pod.name]
           [] roleMap[pod.role].consensusRole = roleFollower ->
                 [acc EXCEPT !.followers =
                     IF @ # "" THEN @ \o "," \o pod.name ELSE pod.name]
           [] OTHER -> acc

RECURSIVE RoleInfo(_, _, _)
RoleInfo(acc, podList, roleMap) ==
    IF podList = << >> THEN acc
    ELSE RoleInfo(RoleInfoStep(acc, Head(podList), roleMap), Tail(podList), roleMap)

\* the config maps after updateConsensusRoleInfo; failAt = k > 0 makes the k-th
\* patch fail (the list itself when there is no k-th config map), 0 none
updateConsensusRoleInfo(cfgs, componentDef, podList, failAt) ==
    LET info == RoleInfo([leader |-> "", followers |-> ""], podList,
                         composeConsensusRoleMap(componentDef))
    IN [configs |-> [i \in 1 .. Len(cfgs) |->
                        IF failAt = 0 \/ i < failAt THEN info ELSE cfgs[i]],
        err |-> IF failAt = 0 THEN NoError ELSE ConfigError]

\* =================================================================== state
VARIABLES
    component,   \* the ClusterComponentDefinition (role spec, update strategy)
    sts,         \* the stateful set: generation, observedGeneration, replicas, updateRevision
    pods,        \* ordinal -> the pod of that ordinal (exists = FALSE: no such pod now)
    status,      \* cluster.Status.Components[name].ConsensusSetStatus, << >> when nil
    statusView,  \* the ready pods (name, role) the persisted status was computed from
    configs,     \* the env config maps of the component: KB_<COMP>_LEADER / _FOLLOWERS
    last,        \* what the last pass of handleConsensusSetUpdate did and returned
    disturb,     \* disturbances (fail-overs, failed calls) so far
    deletes,     \* ordinal -> the deletes of its pod that succeeded since the update revision was set
    clusterDef,  \* the ClusterDefinition the ClusterVersions refer to
    clusterVersions  \* the ClusterVersion objects, in the order cli.List returns them

vars == << component, sts, pods, status, statusView, configs, last, disturb,
           deletes, clusterDef, clusterVersions >>

\* no delete has succeeded
NoDeletes == [i \in Ordinals |-> 0]

\* no ClusterDefinition with the name the ClusterVersions refer to
NoClusterDef == [exists |-> FALSE, generation |-> 0, componentDefs |-> << >>]

NoPod == [name |-> "", ordinal |-> 0, role |-> "", revision |-> 0,
          ready |-> FALSE, terminating |-> FALSE, exists |-> FALSE]

NewPod(i, role, revision, ready, terminating) ==
    [name |-> PodName(i), ordinal |-> i, role |-> role, revision |-> revision,
     ready |-> ready, terminating |-> terminating, exists |-> TRUE]

\* util.GetPodListByStatefulSet: the pods that exist, by ordinal
PodList(ps) ==
    SelectSeq([k \in 1 .. MaxReplicas |-> ps[k - 1]], LAMBDA p : p.exists)

\* the ready pods of an observation with their role labels, in its order
ReadyView(podList) ==
    LET ready == SelectSeq(podList, PodIsReady)
    IN [k \in 1 .. Len(ready) |-> [name |-> ready[k].name, role |-> ready[k].role]]

EmptyConfig == [leader |-> "", followers |-> ""]
NoPass == [kind |-> "none"]
NoView == << [name |-> "none", role |-> "none"] >>

\* what can go wrong in a pass: nothing, the status patch, the k-th config
\* patch, the delete of a pod (an error, or the answer not-found), another
\* writer that changes the persisted status after the pass has read it
NoFault == [kind |-> "none"]
PatchFault == [kind |-> "patch"]
ConflictFault == [kind |-> "conflict"]
Faults ==
    {NoFault, PatchFault, ConflictFault}
      \cup {[kind |-> "config", at |-> k] : k \in 1 .. 2}
      \cup {[kind |-> "delete", pod |-> n] : n \in PodNames}
      \cup {[kind |-> "notfound", pod |-> n] : n \in PodNames}

\* what cli.Delete answers for each pod in a pass
Outcomes(fault) ==
    [n \in PodNames |->
        IF fault.kind = "delete" /\ fault.pod = n THEN DeleteFailed
        ELSE IF fault.kind = "notfound" /\ fault.pod = n THEN DeleteNotFound
        ELSE DeleteOK]

\* ------------------------------------------------ handleConsensusSetUpdate
\* stsObj.Generation == stsObj.Status.ObservedGeneration
GenerationObserved(stsObj) == stsObj.generation = stsObj.observedGeneration

\* mutant of AllPodsPresent: the pods are not counted
AllPodsPresentUnchecked(stsObj, podList) == TRUE

\* len(pods) == int(*stsObj.Spec.Replicas)
AllPodsPresent(stsObj, podList) == Len(podList) = stsObj.replicas

\* mutant of RoleInfoReached: the error of the status patch is not looked at
RoleInfoReachedAfterError(changed, patchErr) == changed

\* updateConsensusRoleInfo is called when the status changed and its patch
\* returned no error
RoleInfoReached(changed, patchErr) == changed /\ patchErr = NoError

\* what the other writer persisted after the pass read the status st: the same
\* status with Followers emptied
ConcurrentStatus(st) == [st EXCEPT !.followers = << >>]

\* patch := client.MergeFrom(cluster.DeepCopy()); cli.Status().Patch(ctx, cluster, patch):
\* the slots that differ between the copy and the new status are written over
\* the persisted status, whatever its version
MergePatch(base, new, current) ==
    [leader |-> IF new.leader = base.leader THEN current.leader ELSE new.leader,
     followers |-> IF new.followers = base.followers THEN current.followers
                   ELSE new.followers,
     learner |-> IF new.learner = base.learner THEN current.learner ELSE new.learner]

\* mutant of newConsensusSetStatus: the pass goes on from the old status
newConsensusSetStatusFromOld(oldConsensusSetStatus) ==
    IF oldConsensusSetStatus = << >> THEN InitialConsensusSetStatus
    ELSE oldConsensusSetStatus[1]

\* newConsensusSetStatus := &appsv1alpha1.ConsensusSetStatus{Leader: ...}: the
\* status a pass starts from, whatever the old status
newConsensusSetStatus(oldConsensusSetStatus) == InitialConsensusSetStatus

\* One pass, with the fault that happens in it should its operation be reached.
handleConsensusSetUpdate(fault) ==
    \E podList \in {PodList(pods)} :
    \E nilSpec \in {NilDereference(component)} :
    \E panicInStatus \in {nilSpec /\ \E k \in 1 .. Len(podList) : PodIsReady(podList[k])} :
    \E newStatus \in {IF panicInStatus THEN InitialConsensusSetStatus
                      ELSE setConsensusSetStatusRoles(newConsensusSetStatus(status),
                                                      component, podList)} :
    \E changed \in {IF panicInStatus THEN FALSE ELSE StatusChanged(newStatus, status)} :
    \E patchErr \in {IF changed /\ fault.kind = "patch" THEN PatchError ELSE NoError} :
    \E written \in {changed /\ patchErr = NoError} :
    \E current \in {IF fault.kind = "conflict" /\ status # << >>
                    THEN << ConcurrentStatus(status[1]) >> ELSE status} :
    \E persisted \in {IF ~written THEN current
                      ELSE IF status = << >> THEN << newStatus >>
                      ELSE << MergePatch(status[1], newStatus, current[1]) >>} :
    \E configAttempted \in {RoleInfoReached(changed, patchErr)} :
    \E panicInConfig \in {configAttempted /\ nilSpec /\ podList # << >>} :
    \E cfg \in {IF configAttempted /\ ~panicInConfig
                THEN updateConsensusRoleInfo(configs, component, podList,
                         IF fault.kind = "config" THEN fault.at ELSE 0)
                ELSE [configs |-> configs, err |-> NoError]} :
    \E statusErr \in {IF panicInStatus \/ panicInConfig THEN PanicError
                      ELSE IF patchErr # NoError THEN patchErr ELSE cfg.err} :
    \E converged \in {GenerationObserved(sts) /\ AllPodsPresent(sts, podList)} :
    \E panicInPlan \in {statusErr = NoError /\ converged /\ nilSpec} :
    \E planBuilt \in {statusErr = NoError /\ converged /\ ~nilSpec} :
    \E plan \in {IF planBuilt THEN generateConsensusUpdatePlan(podList, component)
                 ELSE NewPlan} :
    \E walk \in {IF planBuilt
                 THEN WalkOneStep(plan, sts.updateRevision, Outcomes(fault))
                 ELSE [NewWalk EXCEPT !.complete = FALSE,
                                      !.err = IF panicInPlan THEN PanicError ELSE NoError]} :
       \* a fault is an input of the pass only if the pass reaches its operation
       /\ fault.kind \in {"patch", "config"} => changed
       /\ fault.kind = "conflict" =>
              changed /\ status # << >> /\ current # status
       /\ fault.kind \in {"delete", "notfound"} => fault.pod \in walk.issued
       /\ status' = persisted
       /\ statusView' = IF ~written THEN statusView
                        ELSE IF persisted = << newStatus >> THEN ReadyView(podList)
                        ELSE NoView
       /\ configs' = cfg.configs
       /\ pods' = [i \in Ordinals |->
                     IF pods[i].exists /\ pods[i].name \in walk.removed
                     THEN [pods[i] EXCEPT !.terminating = TRUE]
                     ELSE pods[i]]
       /\ last' = [kind |-> "pass",
                   fault |-> fault,
                   prevErr |-> IF last.kind = "pass" THEN last.err ELSE NoError,
                   pods |-> podList,
                   sts |-> sts,
                   updateRevision |-> sts.updateRevision,
                   converged |-> converged,
                   oldStatus |-> status,
                   concurrent |-> current,
                   baseView |-> statusView,
                   newStatus |-> newStatus,
                   changed |-> changed,
                   written |-> written,
                   configAttempted |-> configAttempted,
                   oldConfigs |-> configs,
                   planBuilt |-> planBuilt,
                   batches |-> Batches(plan),
                   evaluated |-> walk.evaluated,
                   issued |-> walk.issued,
                   removed |-> walk.removed,
                   complete |-> IF statusErr # NoError THEN FALSE ELSE walk.complete,
                   err |-> IF statusErr # NoError THEN statusErr ELSE walk.err]
       /\ disturb' = IF fault = NoFault THEN disturb ELSE disturb + 1
       /\ deletes' = [i \in Ordinals |->
                        IF pods[i].exists /\ pods[i].name \in walk.removed
                        THEN deletes[i] + 1 ELSE deletes[i]]
       /\ UNCHANGED << component, sts, clusterDef, clusterVersions >>

Reconcile ==
    \E fault \in Faults :
       /\ fault # NoFault => disturb < MaxDisturb
       /\ handleConsensusSetUpdate(fault)

\* the pass in which nothing fails
ReconcileOK == handleConsensusSetUpdate(NoFault)

\* ---------------------------------------------- one pass on any observation
Revisions == 1 .. MaxGeneration

\* What a pod can look like when a pass lists the pods: at a stale revision or
\* at the update revision, ready or not, or at the update revision, ready and
\* already terminating; with any role label.  (A stale terminating pod is what
\* a pass leaves behind.)
PodConditions ==
    {[revision |-> revision, ready |-> ready, terminating |-> FALSE] :
        revision \in Revisions, ready \in BOOLEAN}
    \cup {[revision |-> MaxGeneration, ready |-> TRUE, terminating |-> TRUE]}

Init ==
    /\ \E strategy \in Strategies :
          component = [workloadType |-> "Consensus",
                       consensusSpec |-> ConsensusSpecOf(strategy)]
    /\ sts = [generation |-> MaxGeneration, observedGeneration |-> MaxGeneration,
              replicas |-> MaxReplicas, updateRevision |-> MaxGeneration]
    /\ \E roles \in [Ordinals -> RoleLabels], conds \in [Ordinals -> PodConditions] :
          pods = [i \in Ordinals |->
                    NewPod(i, roles[i], conds[i].revision, conds[i].ready,
                           conds[i].terminating)]
    /\ status = << >>
    /\ statusView = NoView
    /\ configs = << EmptyConfig, EmptyConfig >>
    /\ last = NoPass
    /\ disturb = 0
    /\ deletes = NoDeletes
    /\ clusterDef = NoClusterDef
    /\ clusterVersions = << >>

Next == ReconcileOK

Spec == Init /\ [][Next]_vars

\* ------------------------------------------------------- a rolling update
\* The environment of the passes: the stateful set and its controller, the
\* pods' life cycle with the role probe, and a bounded number of fail-overs.
\* Passes and steps of the environment interleave freely.

\* the stateful set spec is updated (a new pod template)
UpdateSts ==
    /\ sts.generation < MaxGeneration
    /\ sts' = [sts EXCEPT !.generation = @ + 1]
    /\ last' = NoPass
    /\ UNCHANGED << component, pods, status, statusView, configs, disturb,
                    deletes, clusterDef, clusterVersions >>

\* the stateful set controller observes the new spec and sets the update revision
StsObserve ==
    /\ sts.observedGeneration # sts.generation
    /\ sts' = [sts EXCEPT !.observedGeneration = sts.generation,
                          !.updateRevision = sts.generation]
    /\ deletes' = NoDeletes
    /\ last' = NoPass
    /\ UNCHANGED << component, pods, status, statusView, configs, disturb,
                    clusterDef, clusterVersions >>

\* a terminating pod is gone
PodGone(i) ==
    /\ pods[i].exists /\ pods[i].terminating
    /\ pods' = [pods EXCEPT ![i] = NoPod]
    /\ last' = NoPass
    /\ UNCHANGED << component, sts, status, statusView, configs, disturb,
                    deletes, clusterDef, clusterVersions >>

\* the stateful set controller recreates a missing pod at the update revision
PodCreate(i) ==
    /\ ~pods[i].exists
    /\ pods' = [pods EXCEPT ![i] = NewPod(i, "", sts.updateRevision, FALSE, FALSE)]
    /\ last' = NoPass
    /\ UNCHANGED << component, sts, status, statusView, configs, disturb,
                    deletes, clusterDef, clusterVersions >>

\* the roles the probe may report for a pod that has just started: none yet,
\* the leader when no ready pod is labelled leader, a follower otherwise
ProbedRoles(ps) ==
    {"", IF \E j \in Ordinals : ps[j].exists /\ ps[j].ready /\ ps[j].role = "leader"
         THEN "follower" ELSE "leader"}

\* a started pod passes its readiness probe and carries the probed role
PodBecomesReady(i, role) ==
    /\ pods[i].exists /\ ~pods[i].ready /\ ~pods[i].terminating
    /\ role \in ProbedRoles(pods)
    /\ pods' = [pods EXCEPT ![i].ready = TRUE, ![i].role = role]
    /\ last' = NoPass
    /\ UNCHANGED << component, sts, status, statusView, configs, disturb,
                    deletes, clusterDef, clusterVersions >>

\* a disturbance: the role label of a pod changes (a fail-over)
RoleChange(i, role) ==
    /\ disturb < MaxDisturb
    /\ pods[i].exists /\ pods[i].ready /\ pods[i].role # role
    /\ pods' = [pods EXCEPT ![i].role = role]
    /\ disturb' = disturb + 1
    /\ last' = NoPass
    /\ UNCHANGED << component, sts, status, statusView, configs,
                    deletes, clusterDef, clusterVersions >>

\* a healthy set to start from: the leader at the first or at the last
\* ordinal, the other pods followers of the two follower roles
LayoutRole(i, leaderAt) ==
    IF i = leaderAt THEN "leader"
    ELSE IF i % 2 = 0 THEN "readonly" ELSE "follower"

InitRollout ==
    /\ \E strategy \in Strategies :
          component = [workloadType |-> "Consensus",
                       consensusSpec |-> ConsensusSpecOf(strategy)]
    /\ sts = [generation |-> 1, observedGeneration |-> 1,
              replicas |-> MaxReplicas, updateRevision |-> 1]
    /\ \E leaderAt \in {0, MaxReplicas - 1} :
          pods = [i \in Ordinals |-> NewPod(i, LayoutRole(i, leaderAt), 1, TRUE, FALSE)]
    /\ status = << >>
    /\ statusView = NoView
    /\ configs = << EmptyConfig, EmptyConfig >>
    /\ last = NoPass
    /\ disturb = 0
    /\ deletes = NoDeletes
    /\ clusterDef = NoClusterDef
    /\ clusterVersions = << >>

NextRollout ==
    \/ Reconcile
    \/ UpdateSts
    \/ StsObserve
    \/ \E i \in Ordinals : PodGone(i)
    \/ \E i \in Ordinals : PodCreate(i)
    \/ \E i \in Ordinals, role \in RoleLabels : PodBecomesReady(i, role)
    \/ \E i \in Ordinals : RoleChange(i, "leader")

SpecRollout == InitRollout /\ [][NextRollout]_vars

\* ------------------------------------------ setConsensusSetStatusRole alone
\* Any sequence of applications of setConsensusSetStatusRole to one status,
\* which starts as the status a pass creates.
SetRole(role, podName) ==
    \E r \in {setConsensusSetStatusRole(status[1], component, role, podName)} :
       /\ status' = << r.status >>
       /\ last' = [kind |-> "set", role |-> role, pod |-> podName,
                   before |-> status[1], needUpdate |-> r.needUpdate]
       /\ UNCHANGED << component, sts, pods, statusView, configs, disturb,
                       deletes, clusterDef, clusterVersions >>

InitStatus ==
    /\ \E strategy \in Strategies :
          component = [workloadType |-> "Consensus",
                       consensusSpec |-> ConsensusSpecOf(strategy)]
    /\ sts = [generation |-> 1, observedGeneration |-> 1,
              replicas |-> MaxReplicas, updateRevision |-> 1]
    /\ pods = [i \in Ordinals |-> NoPod]
    /\ status = << InitialConsensusSetStatus >>
    /\ statusView = NoView
    /\ configs = << EmptyConfig, EmptyConfig >>
    /\ last = NoPass
    /\ disturb = 0
    /\ deletes = NoDeletes
    /\ clusterDef = NoClusterDef
    /\ clusterVersions = << >>

NextStatus == \E role \in RoleLabels, podName \in PodNames : SetRole(role, podName)

SpecStatus == InitStatus /\ [][NextStatus]_vars

\* ------------------------------------------------ ComposeRolePriorityMap alone
\* Any role spec, valid or not, and the priority of any role label under it.
RoleNames == {"", "a", "b", "c", "d"}
AccessModes == {AccessNone, AccessReadonly, AccessReadWrite}
FollowerRoles == [name : RoleNames, accessMode : AccessModes]
FollowerRoleLists == UNION {[1 .. n -> FollowerRoles] : n \in 0 .. MaxFollowerRoles}

\* rolePriorityMap[role] for one role label
Classify(role) ==
    /\ last' = [kind |-> "priority", role |-> role,
                priority |-> MapGetInt(ComposeRolePriorityMap(component), role)]
    /\ UNCHANGED << component, sts, pods, status, statusView, configs, disturb,
                    deletes, clusterDef, clusterVersions >>

InitRoles ==
    /\ \E leaderName \in {"", "a", "b"}, followers \in FollowerRoleLists,
          learnerName \in RoleNames \cup {"nil"} :
          component =
              [workloadType |-> "Consensus",
               consensusSpec |->
                   [leader |-> [name |-> leaderName, accessMode |-> AccessReadWrite],
                    followers |-> followers,
                    learner |-> IF learnerName = "nil" THEN << >>
                                ELSE << [name |-> learnerName,
                                         accessMode |-> AccessReadonly] >>,
                    updateStrategy |-> SerialStrategy]]
    /\ sts = [generation |-> 1, observedGeneration |-> 1,
              replicas |-> MaxReplicas, updateRevision |-> 1]
    /\ pods = [i \in Ordinals |-> NoPod]
    /\ status = << >>
    /\ statusView = NoView
    /\ configs = << EmptyConfig, EmptyConfig >>
    /\ last = NoPass
    /\ disturb = 0
    /\ deletes = NoDeletes
    /\ clusterDef = NoClusterDef
    /\ clusterVersions = << >>

NextRoles == \E role \in RoleNames \cup {"x"} : Classify(role)

SpecRoles == InitRoles /\ [][NextRoles]_vars

\* ------------------------------------------- a component without ConsensusSpec
\* One pass, and its retries, on any observation of a component whose
\* ConsensusSpec is nil; a pod may be missing.
InitNoConsensusSpec ==
    /\ component = [workloadType |-> "Consensus", consensusSpec |-> NilConsensusSpec]
    /\ sts = [generation |-> MaxGeneration, observedGeneration |-> MaxGeneration,
              replicas |-> MaxReplicas, updateRevision |-> MaxGeneration]
    /\ \E present \in [Ordinals -> BOOLEAN],
          roles \in [Ordinals -> {"", DefaultLeaderRole.name}],
          conds \in [Ordinals -> PodConditions] :
          pods = [i \in Ordinals |->
                     IF present[i]
                     THEN NewPod(i, roles[i], conds[i].revision, conds[i].ready,
                                 conds[i].terminating)
                     ELSE NoPod]
    /\ status = << >>
    /\ statusView = NoView
    /\ configs = << EmptyConfig, EmptyConfig >>
    /\ last = NoPass
    /\ disturb = 0
    /\ deletes = NoDeletes
    /\ clusterDef = NoClusterDef
    /\ clusterVersions = << >>

NextNoConsensusSpec == ReconcileOK

SpecNoConsensusSpec == InitNoConsensusSpec /\ [][NextNoConsensusSpec]_vars

\* ------------------------------------------ a rolling update that is let run
\* The passes with nothing failing, the stateful set controller and the pods'
\* life cycle.  The controller and the pods go on: an updated stateful set is
\* observed, a terminating pod goes, a missing pod is recreated at the update
\* revision, a started pod becomes ready.  Passes keep being run: every change
\* of a pod or of the stateful set is followed by a pass, sooner or later.

\* a step of the stateful set controller or of a pod
ControllerStep ==
    \/ StsObserve
    \/ \E i \in Ordinals : PodGone(i)
    \/ \E i \in Ordinals : PodCreate(i)
    \/ \E i \in Ordinals, role \in RoleLabels : PodBecomesReady(i, role)

NextRolloutFair ==
    \/ ReconcileOK
    \/ UpdateSts
    \/ ControllerStep

\* the last step was a pass
PassRun == last.kind = "pass"

FairRollout ==
    /\ WF_vars(ControllerStep)
    /\ []<>PassRun

SpecRolloutFair == InitRollout /\ [][NextRolloutFair]_vars /\ FairRollout

\* --------------------------------------------- one pass under any role spec
\* One pass, and its retries, on stale pods with any role labels, under a role
\* spec that may lack the leader name, a follower name or the learner name.
LeaderRoles == {[name |-> n, accessMode |-> AccessReadWrite] : n \in {"", "leader"}}

FollowerSpecs ==
    {<< >>,
     << [name |-> "follower", accessMode |-> AccessReadWrite] >>,
     << [name |-> "follower", accessMode |-> AccessReadWrite],
        [name |-> "readonly", accessMode |-> AccessReadonly] >>,
     << [name |-> "", accessMode |-> AccessNone] >>}

LearnerSpecs ==
    {<< >>} \cup {<< [name |-> n, accessMode |-> AccessReadonly] >> : n \in {"", "learner"}}

InitAnyRoleSpec ==
    /\ \E leader \in LeaderRoles, followers \in FollowerSpecs, learner \in LearnerSpecs,
          strategy \in {SerialStrategy, BestEffortParallelStrategy} :
          component = [workloadType |-> "Consensus",
                       consensusSpec |-> [leader |-> leader, followers |-> followers,
                                          learner |-> learner,
                                          updateStrategy |-> strategy]]
    /\ sts = [generation |-> MaxGeneration, observedGeneration |-> MaxGeneration,
              replicas |-> MaxReplicas, updateRevision |-> MaxGeneration]
    /\ \E roles \in [Ordinals -> RoleLabels] :
          pods = [i \in Ordinals |-> NewPod(i, roles[i], 1, TRUE, FALSE)]
    /\ status = << >>
    /\ statusView = NoView
    /\ configs = << EmptyConfig, EmptyConfig >>
    /\ last = NoPass
    /\ disturb = 0
    /\ deletes = NoDeletes
    /\ clusterDef = NoClusterDef
    /\ clusterVersions = << >>

NextAnyRoleSpec == ReconcileOK

SpecAnyRoleSpec == InitAnyRoleSpec /\ [][NextAnyRoleSpec]_vars

\* ============================================== the ClusterVersion controller
\* ClusterVersion objects that refer to one ClusterDefinition, which may not
\* exist yet; the passes of ClusterVersionReconciler.Reconcile on one object and
\* the calls of clusterVersionUpdateHandler for the ClusterDefinition.

AvailablePhase == "Available"
UnavailablePhase == "Unavailable"

\* err.Error() of the Get that does not find the ClusterDefinition
ClusterDefNotFoundMessage == "clusterdefinition not found"

LabelPatchError == "label patch failed"

\* what a pass of Reconcile returns beside the error: the request is done
\* (ctrl.Result{}), or it is queued again after a second
ResultDone == "done"
ResultRequeueAfter == "requeue after 1s"

\* ClusterDefinition.spec.componentDefs: the name of a component definition and
\* whether it has containers
ComponentDefLists ==
    {<< [name |-> "a", containers |-> TRUE] >>,
     << [name |-> "a", containers |-> FALSE] >>,
     << [name |-> "a", containers |-> TRUE], [name |-> "b", containers |-> FALSE] >>}

\* ClusterVersion.spec.componentVersions: the component definition referred to
\* and whether the version has containers
ComponentVersionLists ==
    {<< [componentDefRef |-> "a", containers |-> TRUE] >>,
     << [componentDefRef |-> "a", containers |-> FALSE] >>,
     << [componentDefRef |-> "b", containers |-> TRUE] >>}

\* the status of a ClusterVersion that no pass has written
NoClusterVersionStatus ==
    [phase |-> "", message |-> "", observedGeneration |-> 0, clusterDefGeneration |-> 0]

\* the names in a list, as fmt prints a slice of strings
RECURSIVE JoinNames(_)
JoinNames(names) ==
    IF names = << >> THEN ""
    ELSE IF Len(names) = 1 THEN names[1]
    ELSE names[1] \o " " \o JoinNames(Tail(names))

\* clusterVersion.GetInconsistentComponentsInfo(clusterDef): the component
\* definitions referred to that the ClusterDefinition does not have, and the
\* component definitions that have containers neither in the ClusterDefinition
\* nor in a component version
GetInconsistentComponentsInfo(clusterVersion, clusterDefinition) ==
    LET defs == clusterDefinition.componentDefs
        versions == clusterVersion.componentVersions
        defNames == {defs[k].name : k \in 1 .. Len(defs)}
        refs == [k \in 1 .. Len(versions) |-> versions[k].componentDefRef]
        withContainers ==
            {defs[k].name : k \in {j \in 1 .. Len(defs) : defs[j].containers}}
              \cup {versions[k].componentDefRef :
                        k \in {j \in 1 .. Len(versions) : versions[j].containers}}
        names == [k \in 1 .. Len(defs) |-> defs[k].name]
    IN [notFoundComponentDefNames |-> SelectSeq(refs, LAMBDA n : n \notin defNames),
        noContainersComponents |-> SelectSeq(names, LAMBDA n : n \notin withContainers)]

\* the status message of the validation, empty when nothing is inconsistent
validateClusterVersion(clusterVersion, clusterDefinition) ==
    LET info == GetInconsistentComponentsInfo(clusterVersion, clusterDefinition)
    IN IF Len(info.notFoundComponentDefNames) > 0
       THEN "spec.componentSpecs[*].componentDefRef ["
                \o JoinNames(info.notFoundComponentDefNames)
                \o "] not found in ClusterDefinition.spec.componentDefs[*].name"
       ELSE IF Len(info.noContainersComponents) > 0
       THEN "spec.componentSpecs[*].componentDefRef ["
                \o JoinNames(info.noContainersComponents)
                \o "] missing spec.componentSpecs[*].containers"
       ELSE ""

\* what can go wrong in a pass or in a call of the handler: nothing, the check
\* of the config templates, the patch of the labels, a patch of the status (the
\* at-th one of the call)
ClusterVersionFaults ==
    {NoFault, [kind |-> "configTemplate"], [kind |-> "labelPatch"]}
      \cup {[kind |-> "statusPatch", at |-> k] : k \in 1 .. 2}

\* handleClusterDefNotFound: the persisted object after the call and whether
\* the status patch was sent; the error of the patch is dropped by the caller
handleClusterDefNotFound(clusterVersion, message, patchFails) ==
    IF clusterVersion.status.message = message
    THEN [clusterVersion |-> clusterVersion, patched |-> FALSE]
    ELSE IF patchFails
    THEN [clusterVersion |-> clusterVersion, patched |-> TRUE]
    ELSE [clusterVersion |->
              [clusterVersion EXCEPT !.status.phase = UnavailablePhase,
                                     !.status.message = message],
          patched |-> TRUE]

\* mutant of ValidatedStatus: the phase is Available whatever the validation
ValidatedStatusAlwaysAvailable(clusterVersion, clusterDefinition) ==
    [phase |-> AvailablePhase, message |-> "",
     observedGeneration |-> clusterVersion.generation,
     clusterDefGeneration |-> clusterDefinition.generation]

\* the status Reconcile sets after the validation
ValidatedStatus(clusterVersion, clusterDefinition) ==
    LET statusMsg == validateClusterVersion(clusterVersion, clusterDefinition)
    IN [phase |-> IF statusMsg # "" THEN UnavailablePhase ELSE AvailablePhase,
        message |-> statusMsg,
        observedGeneration |-> clusterVersion.generation,
        clusterDefGeneration |-> clusterDefinition.generation]

\* One pass of ClusterVersionReconciler.Reconcile on the i-th ClusterVersion,
\* which is not being deleted, with the fault that happens in it should its
\* operation be reached.
ClusterVersionReconcile(i, fault) ==
    \E clusterVersion \in {clusterVersions[i]} :
    \E observed \in {clusterVersion.status.observedGeneration = clusterVersion.generation} :
    \E templateFails \in {~observed /\ fault.kind = "configTemplate"} :
    \E lookedUp \in {~observed /\ ~templateFails} :
    \E notFound \in {lookedUp /\ ~clusterDef.exists} :
    \E nf \in {IF notFound
               THEN handleClusterDefNotFound(clusterVersion, ClusterDefNotFoundMessage,
                                             fault.kind = "statusPatch")
               ELSE [clusterVersion |-> clusterVersion, patched |-> FALSE]} :
    \E labelPatched \in {lookedUp /\ ~notFound} :
    \E labelErr \in {labelPatched /\ fault.kind = "labelPatch"} :
    \E labelled \in {IF labelPatched /\ ~labelErr
                     THEN [nf.clusterVersion EXCEPT !.labelled = TRUE]
                     ELSE nf.clusterVersion} :
    \E statusPatched \in {labelPatched /\ ~labelErr} :
    \E statusErr \in {statusPatched /\ fault.kind = "statusPatch"} :
    \E after \in {IF statusPatched /\ ~statusErr
                  THEN [labelled EXCEPT !.status = ValidatedStatus(labelled, clusterDef)]
                  ELSE labelled} :
       \* a fault is an input of the pass only if the pass reaches its operation
       /\ fault.kind = "configTemplate" => templateFails
       /\ fault.kind = "labelPatch" => labelErr
       /\ fault.kind = "statusPatch" => fault.at = 1 /\ (statusErr \/ nf.patched)
       /\ clusterVersions' = [clusterVersions EXCEPT ![i] = after]
       /\ last' = [kind |-> "clusterVersion",
                   index |-> i,
                   fault |-> fault,
                   before |-> clusterVersion,
                   clusterDef |-> clusterDef,
                   lookedUp |-> lookedUp,
                   patches |-> (IF nf.patched THEN 1 ELSE 0)
                               + (IF labelPatched THEN 1 ELSE 0)
                               + (IF statusPatched THEN 1 ELSE 0),
                   result |-> IF templateFails THEN ResultRequeueAfter ELSE ResultDone,
                   err |-> IF notFound THEN ClusterDefNotFoundMessage
                           ELSE IF labelErr THEN LabelPatchError
                           ELSE IF statusErr THEN PatchError
                           ELSE NoError]
       /\ disturb' = IF fault = NoFault THEN disturb ELSE disturb + 1
       /\ UNCHANGED << component, sts, pods, status, statusView, configs, deletes,
                       clusterDef >>

\* mutant of ItemStatus: ClusterDefGeneration is set whatever the validation
ItemStatusAlwaysObserved(item, clusterDefinition) ==
    LET statusMsg == validateClusterVersion(item, clusterDefinition)
    IN [item.status EXCEPT
          !.phase = IF statusMsg # "" THEN UnavailablePhase ELSE AvailablePhase,
          !.message = statusMsg,
          !.clusterDefGeneration = clusterDefinition.generation]

\* the status clusterVersionUpdateHandler sets on an item of the list
ItemStatus(item, clusterDefinition) ==
    LET statusMsg == validateClusterVersion(item, clusterDefinition)
    IN IF statusMsg # ""
       THEN [item.status EXCEPT !.phase = UnavailablePhase, !.message = statusMsg]
       ELSE [item.status EXCEPT !.phase = AvailablePhase, !.message = "",
                                !.clusterDefGeneration = clusterDefinition.generation]

RECURSIVE UpdateItems(_, _, _, _, _)
\* for _, item := range list.Items, from the k-th object on; sent patches have
\* been sent so far and the failAt-th one fails (0: none fails)
UpdateItems(items, k, sent, failAt, clusterDefinition) ==
    IF k > Len(items) THEN [items |-> items, err |-> NoError, patches |-> sent]
    ELSE IF ~items[k].labelled
              \/ items[k].status.clusterDefGeneration = clusterDefinition.generation
    THEN UpdateItems(items, k + 1, sent, failAt, clusterDefinition)
    ELSE IF sent + 1 = failAt
    THEN [items |-> items, err |-> PatchError, patches |-> sent + 1]
    ELSE UpdateItems([items EXCEPT ![k].status = ItemStatus(items[k], clusterDefinition)],
                     k + 1, sent + 1, failAt, clusterDefinition)

\* One call of clusterVersionUpdateHandler for the ClusterDefinition; the list
\* holds the ClusterVersions that carry its label.
clusterVersionUpdateHandler(fault) ==
    \E r \in {UpdateItems(clusterVersions, 1, 0,
                          IF fault.kind = "statusPatch" THEN fault.at ELSE 0,
                          clusterDef)} :
       /\ clusterDef.exists
       /\ fault.kind \in {"none", "statusPatch"}
       /\ fault.kind = "statusPatch" => r.err = PatchError
       /\ clusterVersions' = r.items
       /\ last' = [kind |-> "handler",
                   fault |-> fault,
                   before |-> clusterVersions,
                   clusterDef |-> clusterDef,
                   patches |-> r.patches,
                   err |-> r.err]
       /\ disturb' = IF fault = NoFault THEN disturb ELSE disturb + 1
       /\ UNCHANGED << component, sts, pods, status, statusView, configs, deletes,
                       clusterDef >>

\* ---------------------------------------- the users of the two kinds of object
\* the ClusterDefinition is created
CreateClusterDef(componentDefs) ==
    /\ ~clusterDef.exists
    /\ clusterDef' = [exists |-> TRUE, generation |-> 1, componentDefs |-> componentDefs]
    /\ last' = NoPass
    /\ UNCHANGED << component, sts, pods, status, statusView, configs, disturb,
                    deletes, clusterVersions >>

\* the spec of the ClusterDefinition is changed
UpdateClusterDef(componentDefs) ==
    /\ clusterDef.exists /\ clusterDef.generation < MaxGeneration
    /\ componentDefs # clusterDef.componentDefs
    /\ clusterDef' = [clusterDef EXCEPT !.generation = @ + 1,
                                        !.componentDefs = componentDefs]
    /\ last' = NoPass
    /\ UNCHANGED << component, sts, pods, status, statusView, configs, disturb,
                    deletes, clusterVersions >>

\* the spec of a ClusterVersion is changed
UpdateClusterVersion(i, componentVersions) ==
    /\ clusterVersions[i].generation < MaxGeneration
    /\ componentVersions # clusterVersions[i].componentVersions
    /\ clusterVersions' = [clusterVersions EXCEPT
                              ![i].generation = @ + 1,
                              ![i].componentVersions = componentVersions]
    /\ last' = NoPass
    /\ UNCHANGED << component, sts, pods, status, statusView, configs, disturb,
                    deletes, clusterDef >>

ClusterVersionIndexes == 1 .. MaxClusterVersions

InitClusterVersions ==
    /\ component = [workloadType |-> "Consensus",
                    consensusSpec |-> ConsensusSpecOf(SerialStrategy)]
    /\ sts = [generation |-> 1, observedGeneration |-> 1,
              replicas |-> MaxReplicas, updateRevision |-> 1]
    /\ pods = [i \in Ordinals |-> NoPod]
    /\ status = << >>
    /\ statusView = NoView
    /\ configs = << EmptyConfig, EmptyConfig >>
    /\ last = NoPass
    /\ disturb = 0
    /\ deletes = NoDeletes
    /\ clusterDef = NoClusterDef
    /\ \E versions \in [ClusterVersionIndexes -> ComponentVersionLists] :
          clusterVersions =
              [i \in ClusterVersionIndexes |->
                  [generation |-> 1, labelled |-> FALSE,
                   componentVersions |-> versions[i],
                   status |-> NoClusterVersionStatus]]

NextClusterVersions ==
    \/ \E i \in ClusterVersionIndexes, fault \in ClusterVersionFaults :
          /\ fault # NoFault => disturb < MaxDisturb
          /\ ClusterVersionReconcile(i, fault)
    \/ \E fault \in ClusterVersionFaults :
          /\ fault # NoFault => disturb < MaxDisturb
          /\ clusterVersionUpdateHandler(fault)
    \/ \E componentDefs \in ComponentDefLists : CreateClusterDef(componentDefs)
    \/ \E componentDefs \in ComponentDefLists : UpdateClusterDef(componentDefs)
    \/ \E i \in ClusterVersionIndexes, componentVersions \in ComponentVersionLists :
          UpdateClusterVersion(i, componentVersions)

SpecClusterVersions == InitClusterVersions /\ [][NextClusterVersions]_vars

\* ================================================================== claims
Pass == last.kind = "pass"
Strategy == component.consensusSpec.updateStrategy

\* the pods the last pass listed
LastPods == SeqToSet(last.pods)

Priority(pod) == MapGetInt(ComposeRolePriorityMap(component), pod.role)
IsLeaderPod(pod) == Priority(pod) = leaderPriority
IsFollowerPod(pod) == Priority(pod) > learnerPriority /\ Priority(pod) < leaderPriority

AtTarget(pod) == pod.revision = last.updateRevision
Settled(pod) == AtTarget(pod) /\ pod.ready /\ ~pod.terminating
Issued(pod) == pod.name \in last.issued

\* C1: under Serial and BestEffortParallel a pass deletes a leader-priority pod
\* only if every non-leader pod it listed is at the update revision, ready and
\* not terminating, and it deletes no non-leader pod in the same pass
C1_LeaderLast ==
    (Pass /\ Strategy \in {SerialStrategy, BestEffortParallelStrategy}) =>
        \A p \in LastPods :
            (IsLeaderPod(p) /\ Issued(p)) =>
                \A q \in LastPods : ~IsLeaderPod(q) => (Settled(q) /\ ~Issued(q))

C1_Witness ==
    /\ Pass /\ Strategy = BestEffortParallelStrategy
    /\ \E p \in LastPods : IsLeaderPod(p) /\ Issued(p)
    /\ \E q \in LastPods : IsFollowerPod(q) /\ Settled(q)
    /\ \E q \in LastPods : Priority(q) <= learnerPriority /\ Settled(q)

IssuedFollowers == {p \in LastPods : IsFollowerPod(p) /\ Issued(p)}
FollowerCount == Cardinality({p \in LastPods : IsFollowerPod(p)})

\* C2 as stated: under BestEffortParallel the followers deleted in one pass are
\* at most half of the followers
C2_AtMostHalf ==
    (Pass /\ Strategy = BestEffortParallelStrategy) =>
        2 * Cardinality(IssuedFollowers) <= FollowerCount

\* C2 amended: under BestEffortParallel the followers deleted in one pass are at
\* most F - floor(F/2) of the F followers (the larger half when F is odd)
C2_AtMostLargerHalf ==
    (Pass /\ Strategy = BestEffortParallelStrategy) =>
        Cardinality(IssuedFollowers) <= FollowerCount - (FollowerCount \div 2)

C2_Witness ==
    /\ Pass /\ Strategy = BestEffortParallelStrategy
    /\ FollowerCount = 3
    /\ Cardinality(IssuedFollowers) = 2

RECURSIVE Flatten(_)
Flatten(ss) == IF ss = << >> THEN << >> ELSE Head(ss) \o Flatten(Tail(ss))

\* C3: the plan partitions the pods: every listed pod is in exactly one batch
C3_Partition ==
    (Pass /\ last.planBuilt) =>
        LET flat == Flatten(last.batches)
        IN /\ Len(flat) = Len(last.pods)
           /\ SeqToSet(flat) = {p.name : p \in LastPods}
           /\ \A i, j \in 1 .. Len(flat) : flat[i] = flat[j] => i = j

C3_Witness ==
    /\ Pass /\ last.planBuilt /\ Strategy = BestEffortParallelStrategy
    /\ Len(last.batches) = 3
    /\ Len(last.pods) = MaxReplicas

\* the pods of the last pass by (priority, ordinal), computed by rank
Before(p, q) ==
    \/ Priority(p) < Priority(q)
    \/ Priority(p) = Priority(q) /\ p.ordinal < q.ordinal
Rank(p, ps) == Cardinality({q \in ps : Before(q, p)}) + 1
InOrder(ps) == [k \in 1 .. Cardinality(ps) |-> (CHOOSE p \in ps : Rank(p, ps) = k).name]

NonEmpty(ss) == SelectSeq(ss, LAMBDA b : b # << >>)

ExpectedLow == InOrder({p \in LastPods : Priority(p) <= learnerPriority})
ExpectedFollowers == InOrder({p \in LastPods : IsFollowerPod(p)})
ExpectedLeaders == InOrder({p \in LastPods : IsLeaderPod(p)})

C5_DeleteOnlyStale ==
    Pass => \A p \in LastPods : Issued(p) => (~p.terminating /\ ~AtTarget(p))

C5_Witness ==
    /\ Pass /\ last.issued # {}
    /\ \E p \in LastPods : p.terminating /\ p.name \in SeqToSet(last.evaluated)
    /\ \E p \in LastPods : AtTarget(p) /\ ~p.ready /\ p.name \in SeqToSet(last.evaluated)

\* C6 as stated: a pass on a converged stateful set is complete iff every pod is
\* at the update revision and ready
C6_CompleteIffReady ==
    (Pass /\ last.converged /\ last.err = NoError) =>
        (last.complete <=> \A p \in LastPods : AtTarget(p) /\ p.ready)

\* C6 amended: ... iff every pod is at the update revision, ready and not
\* terminating; when nothing fails the pass returns no error
C6_CompleteIffSettled ==
    (Pass /\ last.converged /\ last.err = NoError) =>
        (last.complete <=> \A p \in LastPods : Settled(p))

C6_Witness ==
    /\ Pass /\ last.converged /\ last.complete /\ last.err = NoError
    /\ Len(last.pods) = MaxReplicas
    /\ Len(last.batches) > 1

\* the error the status part of a pass returns under a fault
StatusError(fault) ==
    IF fault.kind = "patch" THEN PatchError
    ELSE IF fault.kind = "config" THEN ConfigError ELSE NoError

\* the stateful set the last pass read had not converged
NotConverged ==
    \/ last.sts.generation # last.sts.observedGeneration
    \/ Len(last.pods) # last.sts.replicas

C8_Idempotent ==
    (Pass /\ last.oldStatus # << >> /\ last.baseView = ReadyView(last.pods)) =>
        /\ last.newStatus = last.oldStatus[1]
        /\ ~last.changed /\ ~last.written /\ ~last.configAttempted

C8_Witness ==
    /\ Pass /\ last.oldStatus # << >> /\ last.baseView = ReadyView(last.pods)
    /\ ~last.changed
    /\ last.newStatus.leader.pod \in PodNames
    /\ Len(last.newStatus.followers) > 1

InFollowers(st, podName) ==
    \E k \in 1 .. Len(st.followers) : st.followers[k].pod = podName

\* the pod listed at k is ready and carries the leader's role label
ReadyLeaderAt(k) ==
    /\ last.pods[k].ready
    /\ last.pods[k].role = component.consensusSpec.leader.name

\* the pod listed at k was a follower in the persisted status and is now ready
\* with the leader label
PromotedAt(k) ==
    /\ last.oldStatus # << >>
    /\ InFollowers(last.oldStatus[1], last.pods[k].name)
    /\ ReadyLeaderAt(k)

LeaderNotFollower ==
    status # << >> => ~InFollowers(status[1], status[1].leader.pod)

\* C9 as stated: a pod recorded in Followers by one pass and ready with the
\* leader label in the next pass is in that pass removed from Followers and
\* installed as Leader; no persisted status has a pod as Leader and in Followers
C9_PromotedIsLeader ==
    /\ LeaderNotFollower
    /\ Pass => \A k \in 1 .. Len(last.pods) :
           PromotedAt(k) =>
               /\ ~InFollowers(last.newStatus, last.pods[k].name)
               /\ last.newStatus.leader.pod = last.pods[k].name

\* C9 amended: such a pod is removed from Followers, and it is installed as
\* Leader unless a pod listed after it is also ready with the leader label (the
\* last such pod listed takes the Leader slot); no persisted status has a pod as
\* Leader and in Followers
C9_PromotedLastIsLeader ==
    /\ LeaderNotFollower
    /\ Pass => \A k \in 1 .. Len(last.pods) :
           PromotedAt(k) =>
               /\ ~InFollowers(last.newStatus, last.pods[k].name)
               /\ \/ last.newStatus.leader.pod = last.pods[k].name
                  \/ \E j \in (k + 1) .. Len(last.pods) : ReadyLeaderAt(j)
               /\ (\A j \in (k + 1) .. Len(last.pods) : ~ReadyLeaderAt(j))
                      => last.newStatus.leader.pod = last.pods[k].name

C9_Witness ==
    /\ Pass /\ last.written
    /\ \E k \in 1 .. Len(last.pods) :
          /\ PromotedAt(k)
          /\ last.newStatus.leader.pod = last.pods[k].name
          /\ last.oldStatus[1].leader.pod # last.pods[k].name
    /\ LeaderNotFollower

\* C10: every status computed by a sequence of applications of
\* setConsensusSetStatusRole has at most one Leader and at most one Learner, no
\* pod name in more than one of Leader, Followers and Learner, and Followers
\* without duplicates and ascending by pod name
C10_StatusWellFormed ==
    \A k \in 1 .. Len(status) :
        LET st == status[k]
        IN /\ st.leader.pod \in PodNames \cup {ComponentStatusDefaultPodName}
           /\ Len(st.learner) <= 1
           /\ ~InFollowers(st, st.leader.pod)
           /\ \A l \in 1 .. Len(st.learner) :
                 /\ ~InFollowers(st, st.learner[l].pod)
                 /\ st.learner[l].pod # st.leader.pod
           /\ \A i \in 1 .. Len(st.followers), j \in 1 .. Len(st.followers) :
                 i < j => NameLess(st.followers[i].pod, st.followers[j].pod)

C10_Witness ==
    /\ last.kind = "set" /\ last.needUpdate
    /\ last.before.leader.pod = last.pod
    /\ InFollowers(status[1], last.pod)
    /\ Len(status[1].followers) = 2
    /\ status[1].followers[1].pod = last.pod
    /\ Len(status[1].learner) = 1

\* C11: applying setConsensusSetStatusRole with a role label that the role spec
\* does not define (the empty label included) leaves Leader, Followers and
\* Learner as they were and reports no update
C11_UnknownRoleNoEffect ==
    (last.kind = "set" /\ last.role \notin DOMAIN composeConsensusRoleMap(component)) =>
        /\ status[1] = last.before
        /\ ~last.needUpdate

C11_Witness ==
    /\ last.kind = "set" /\ last.role \in {"", "x"}
    /\ InFollowers(last.before, last.pod)
    /\ last.before.leader.pod \in PodNames
    /\ status[1] = last.before

\* C12: the config records are updated only in a pass in which the status
\* changed and its write succeeded; a pass whose status write fails modifies no
\* config record and no persisted status, returns the error of the write,
\* builds no plan and issues no delete
C12_ConfigAfterWrite ==
    Pass =>
        /\ (last.configAttempted \/ configs # last.oldConfigs) =>
               (last.changed /\ last.written /\ status # last.oldStatus)
        /\ last.fault.kind = "patch" =>
               /\ configs = last.oldConfigs /\ ~last.configAttempted
               /\ status = last.oldStatus /\ ~last.written
               /\ last.err = PatchError /\ ~last.complete
               /\ ~last.planBuilt /\ last.batches = << >>
               /\ last.issued = {} /\ last.removed = {}

C12_Witness ==
    /\ Pass /\ last.fault.kind = "patch" /\ last.err = PatchError
    /\ ~NotConverged
    /\ \E p \in LastPods : ~AtTarget(p) /\ ~p.terminating
    /\ last.newStatus.leader.pod \in PodNames
    /\ last.oldStatus # << >>
    /\ configs = last.oldConfigs

\* C13 as stated: a pass that runs right after a pass whose status write
\* succeeded and whose config propagation failed, on the same observations and
\* with no failure of its own, attempts the config propagation again, so that
\* every config record holds the leader and the followers
C13_RetryPropagates ==
    (Pass /\ last.prevErr = ConfigError /\ last.fault = NoFault) =>
        /\ last.configAttempted
        /\ configs = updateConsensusRoleInfo(last.oldConfigs, component,
                                             last.pods, 0).configs

\* what the code does instead: the retried pass finds the status unchanged,
\* skips the config propagation and returns no error, the config records left
\* as the failed propagation left them
C13_RetrySkipsConfig ==
    /\ Pass /\ last.prevErr = ConfigError /\ last.fault = NoFault
    /\ ~last.changed /\ ~last.configAttempted
    /\ last.err = NoError
    /\ configs = last.oldConfigs
    /\ configs # updateConsensusRoleInfo(last.oldConfigs, component,
                                         last.pods, 0).configs

\* the pod names of the followers of a status, joined by commas
RECURSIVE JoinFollowers(_)
JoinFollowers(members) ==
    IF members = << >> THEN ""
    ELSE IF Len(members) = 1 THEN members[1].pod
    ELSE members[1].pod \o "," \o JoinFollowers(Tail(members))

\* the leader pod name of a status, empty when the slot holds the placeholder
LeaderNameOf(st) ==
    IF st.leader.pod = ComponentStatusDefaultPodName THEN "" ELSE st.leader.pod

\* C14 as stated: after a pass whose status write and config propagation
\* succeeded, every config record holds the leader pod name of the persisted
\* status and its follower pod names, ascending and joined by commas, whatever
\* the pods that are not ready
C14_ConfigHoldsStatus ==
    (Pass /\ last.written /\ last.configAttempted /\ last.err # ConfigError) =>
        \A i \in 1 .. Len(configs) :
            /\ configs[i].leader = LeaderNameOf(status[1])
            /\ configs[i].followers = JoinFollowers(status[1].followers)

\* what the code does instead: a pod that is not ready and carries a follower
\* label is written to the config records and is no follower of the status
C14_NotReadyInConfig ==
    /\ Pass /\ last.written /\ last.configAttempted /\ last.err # ConfigError
    /\ status[1] = last.newStatus
    /\ Len(status[1].followers) = 1
    /\ \E p \in LastPods :
          /\ ~p.ready /\ IsFollowerPod(p)
          /\ ~InFollowers(status[1], p.name)
          /\ \A i \in 1 .. Len(configs) :
                configs[i].followers \in
                    {p.name \o "," \o status[1].followers[1].pod,
                     status[1].followers[1].pod \o "," \o p.name}

\* C15: under Serial the batches are the listed pods in the order (role priority
\* ascending, ordinal ascending), one pod per batch; a pass issues at most one
\* delete, and it deletes a pod only if every pod earlier in that order is at
\* the update revision, ready and not terminating
C15_SerialOneByOne ==
    (Pass /\ Strategy = SerialStrategy /\ last.planBuilt) =>
        /\ last.batches = [k \in 1 .. Len(last.pods) |-> << InOrder(LastPods)[k] >>]
        /\ Cardinality(last.issued) <= 1
        /\ \A p \in LastPods :
              Issued(p) => \A q \in LastPods : Before(q, p) => Settled(q)

C15_Witness ==
    /\ Pass /\ Strategy = SerialStrategy /\ last.planBuilt
    /\ last.batches = << << "pod-2" >>, << "pod-1" >>, << "pod-0" >> >>
    /\ last.issued = {"pod-1"}
    /\ \E p \in LastPods : p.name = "pod-0" /\ ~Settled(p)

\* the role names of the role spec, in the order leader, followers, learner
SpecRoleNames ==
    << component.consensusSpec.leader.name >>
    \o [k \in 1 .. Len(component.consensusSpec.followers) |->
            component.consensusSpec.followers[k].name]
    \o [k \in 1 .. Len(component.consensusSpec.learner) |->
            component.consensusSpec.learner[k].name]

\* a valid role spec: the role names are not empty and differ from each other
ValidRoleSpec ==
    /\ \A k \in 1 .. Len(SpecRoleNames) : SpecRoleNames[k] # ""
    /\ \A j, k \in 1 .. Len(SpecRoleNames) : j # k => SpecRoleNames[j] # SpecRoleNames[k]
    /\ \A k \in 1 .. Len(component.consensusSpec.followers) :
          component.consensusSpec.followers[k].accessMode \in AccessModes

\* the priority the claim gives a role label under the role spec
ClaimedPriority(role) ==
    LET spec == component.consensusSpec
    IN IF role = spec.leader.name THEN 32
       ELSE IF \E k \in 1 .. Len(spec.followers) :
                  spec.followers[k].name = role /\ spec.followers[k].accessMode = AccessReadWrite
            THEN 16
       ELSE IF \E k \in 1 .. Len(spec.followers) :
                  spec.followers[k].name = role /\ spec.followers[k].accessMode = AccessReadonly
            THEN 8
       ELSE IF \E k \in 1 .. Len(spec.followers) :
                  spec.followers[k].name = role /\ spec.followers[k].accessMode = AccessNone
            THEN 4
       ELSE IF spec.learner # << >> /\ spec.learner[1].name = role THEN 2
       ELSE IF role = "" THEN 1
       ELSE 0

\* C16: under a valid role spec ComposeRolePriorityMap gives the leader 32, a
\* ReadWrite follower 16, a Readonly follower 8, a None follower 4, the learner
\* 2, the empty label 1 and any other label 0
C16_PriorityOrder ==
    (last.kind = "priority" /\ ValidRoleSpec) =>
        last.priority = ClaimedPriority(last.role)

C16_Witness ==
    /\ last.kind = "priority" /\ ValidRoleSpec
    /\ Len(component.consensusSpec.followers) = 2
    /\ component.consensusSpec.followers[1].accessMode = AccessReadonly
    /\ component.consensusSpec.followers[2].accessMode = AccessNone
    /\ component.consensusSpec.learner # << >>
    /\ last.role = component.consensusSpec.followers[2].name
    /\ last.priority = 4

\* C17 as stated: a pass on a component without ConsensusSpec gives the default
\* leader name the leader priority and returns without an error or a crash,
\* whatever the pods
C17_NoSpecNoFailure ==
    (Pass /\ component.consensusSpec = NilConsensusSpec) =>
        /\ MapGetInt(ComposeRolePriorityMap(component), DefaultLeaderRole.name)
               = leaderPriority
        /\ last.err = NoError

\* what the code does instead: with a ready pod the pass panics while it
\* computes the status, before anything is written
C17_PanicOnReadyPod ==
    /\ Pass /\ component.consensusSpec = NilConsensusSpec
    /\ \E p \in LastPods : p.ready
    /\ last.err = PanicError /\ ~last.complete
    /\ ~last.written /\ status = << >>

\* C18 as stated: a status write of a pass that read a status which another
\* writer has changed since is rejected with an error, and the persisted status
\* stays the one of the other writer
C18_StaleWriteRejected ==
    (Pass /\ last.fault.kind = "conflict") =>
        /\ last.err # NoError
        /\ status = last.concurrent

\* what the code does instead: the patch is applied without an error and the
\* followers the other writer persisted are replaced by those of the pass
C18_StaleWriteApplied ==
    /\ Pass /\ last.fault.kind = "conflict"
    /\ last.concurrent # last.oldStatus
    /\ last.written /\ last.err = NoError
    /\ status # last.concurrent
    /\ status[1].followers = last.newStatus.followers
    /\ status[1].followers # last.concurrent[1].followers

\* the batch of the last plan that holds the pod
BatchOf(podName) ==
    CHOOSE k \in 1 .. Len(last.batches) : podName \in SeqToSet(last.batches[k])

\* C19: a pass in which a delete fails with an error other than not-found
\* returns complete = false and that error; the failed delete is the last thing
\* it does, and it evaluates and deletes no pod of a later batch
C19_DeleteErrorAborts ==
    (Pass /\ last.fault.kind = "delete") =>
        /\ last.err = DeleteError /\ ~last.complete
        /\ last.evaluated[Len(last.evaluated)] = last.fault.pod
        /\ last.fault.pod \in last.issued /\ last.fault.pod \notin last.removed
        /\ \A n \in SeqToSet(last.evaluated) \cup last.issued :
              BatchOf(n) <= BatchOf(last.fault.pod)

C19_Witness ==
    /\ Pass /\ last.fault.kind = "delete" /\ last.err = DeleteError
    /\ last.batches[1][1] = last.fault.pod
    /\ Len(last.batches[1]) > 1
    /\ \E p \in LastPods :
          /\ p.name \in SeqToSet(last.batches[1]) /\ p.name # last.fault.pod
          /\ ~AtTarget(p) /\ ~p.terminating /\ ~Issued(p)

\* C20: a delete answered not-found is no error: the pod counts as not settled,
\* the other pods of its batch are still evaluated and deleted, and the pass
\* returns complete = false with no error
C20_NotFoundIsNoError ==
    (Pass /\ last.fault.kind = "notfound") =>
        /\ last.err = NoError /\ ~last.complete
        /\ last.fault.pod \in last.issued
        /\ \A n \in SeqToSet(last.batches[BatchOf(last.fault.pod)]) :
              n \in SeqToSet(last.evaluated)
        /\ \A p \in LastPods :
              (BatchOf(p.name) = BatchOf(last.fault.pod) /\ ~AtTarget(p) /\ ~p.terminating)
                  => Issued(p)
        /\ \A n \in SeqToSet(last.evaluated) \cup last.issued :
              BatchOf(n) <= BatchOf(last.fault.pod)

C20_Witness ==
    /\ Pass /\ last.fault.kind = "notfound" /\ last.err = NoError /\ ~last.complete
    /\ last.batches[1][1] = last.fault.pod
    /\ Cardinality(last.issued) > 1
    /\ last.removed = last.issued \ {last.fault.pod}
    /\ \E p \in LastPods : p.name = last.fault.pod /\ ~p.terminating

\* the pod the last pass listed under a name
PodNamed(podName) == CHOOSE p \in LastPods : p.name = podName

\* the batches of the last plan that hold a pod which is not settled
UnsettledBatches ==
    {k \in 1 .. Len(last.batches) :
        \E n \in SeqToSet(last.batches[k]) : ~Settled(PodNamed(n))}

FirstUnsettled == CHOOSE k \in UnsettledBatches : \A j \in UnsettledBatches : k <= j

\* C21: a pass in which nothing fails evaluates the batches up to and including
\* the first one that holds a pod which is not at the update revision, ready and
\* not terminating, and no pod of a later batch; it deletes the pods of that
\* batch that are stale and not terminating, and no other pod; with every batch
\* settled it evaluates all of them, deletes nothing and is complete
C21_StopsAtFirstUnsettled ==
    (Pass /\ last.planBuilt /\ last.err = NoError) =>
        IF UnsettledBatches = {}
        THEN /\ last.evaluated = Flatten(last.batches)
             /\ last.issued = {}
             /\ last.complete
        ELSE /\ last.evaluated = Flatten(SubSeq(last.batches, 1, FirstUnsettled))
             /\ last.issued =
                   {n \in SeqToSet(last.batches[FirstUnsettled]) :
                       ~AtTarget(PodNamed(n)) /\ ~PodNamed(n).terminating}
             /\ ~last.complete

C21_Witness ==
    /\ Pass /\ last.planBuilt /\ last.err = NoError
    /\ Len(last.batches) = 3
    /\ UnsettledBatches = {2, 3}
    /\ last.issued = SeqToSet(last.batches[2])
    /\ \E n \in SeqToSet(last.batches[3]) :
          ~AtTarget(PodNamed(n)) /\ ~PodNamed(n).terminating

\* a pod is behind the update revision
RolloutPending ==
    \E i \in Ordinals : pods[i].exists /\ pods[i].revision # sts.updateRevision

\* the last step was a pass that returned complete = true, every pod at the
\* update revision
RolloutComplete ==
    /\ Pass /\ last.complete /\ last.err = NoError
    /\ \A i \in Ordinals : pods[i].exists /\ pods[i].revision = sts.updateRevision

\* C22: when the passes, the stateful set controller and the pods go on and
\* nothing fails, a rollout that has pods behind the update revision leads, for
\* each strategy, to a pass that returns complete = true with every pod at the
\* update revision; and no pod ordinal is deleted more than once for one update
\* revision
C22_RolloutFinishes ==
    /\ RolloutPending ~> RolloutComplete
    /\ [](\A i \in Ordinals : deletes[i] <= 1)

C22_Witness ==
    /\ RolloutComplete
    /\ sts.updateRevision = MaxGeneration
    /\ \A i \in Ordinals : deletes[i] = 1
    /\ \E i \in Ordinals : pods[i].role = ""
    /\ \E i \in Ordinals : pods[i].role = "leader" /\ i \notin {0, MaxReplicas - 1}

\* the pods named in a status, the placeholder of the Leader slot left out
Members(st) ==
    ({st.leader} \cup SeqToSet(st.followers) \cup SeqToSet(st.learner))
        \ {DefaultLeader}

\* the pod of a member was listed ready by the last pass
ListedReady(podName) == \E p \in LastPods : p.name = podName /\ p.ready

\* C23: every member of the status a pass computes (the Leader unless it is the
\* placeholder, each Follower, the Learner) is a pod the pass listed ready,
\* under the role name of the pod's label, which the role spec defines; a pod of
\* the old status that the pass did not list ready is no member of the new one
C23_StatusFromReady ==
    Pass =>
        /\ \A m \in Members(last.newStatus) :
              \E p \in LastPods :
                 /\ p.name = m.pod /\ p.ready
                 /\ p.role = m.name
                 /\ p.role \in DOMAIN composeConsensusRoleMap(component)
        /\ \A k \in 1 .. Len(last.oldStatus) :
              \A m \in Members(last.oldStatus[k]) :
                 ~ListedReady(m.pod) =>
                     \A n \in Members(last.newStatus) : n.pod # m.pod

C23_Witness ==
    /\ Pass /\ last.oldStatus # << >> /\ last.written
    /\ \E m \in Members(last.oldStatus[1]) :
          /\ m = last.oldStatus[1].leader
          /\ \E p \in LastPods : p.name = m.pod /\ ~p.ready
    /\ \E m \in Members(last.oldStatus[1]) :
          /\ m \in SeqToSet(last.oldStatus[1].followers)
          /\ \A p \in LastPods : p.name # m.pod
    /\ last.newStatus.leader = DefaultLeader
    /\ Members(last.newStatus) # {}

\* the role label of the pod is a role name of the role spec
InSpec(pod) == \E k \in 1 .. Len(SpecRoleNames) : SpecRoleNames[k] = pod.role

\* the pod carries no role label, or one that the role spec does not define
Unlabelled(pod) == pod.role = "" \/ ~InSpec(pod)

\* the place of the pod in the batches of the last plan laid end to end
PlaceOf(podName) ==
    CHOOSE k \in 1 .. Len(Flatten(last.batches)) : Flatten(last.batches)[k] = podName

\* C24 as stated: under every role spec a pod with the empty role label has
\* priority 1 and a pod whose label the role spec does not define has priority
\* 0; in the plan such pods come before every pod with a label of the role
\* spec, and under BestEffortParallel they are in the first batch
C24_UnlabelledFirst ==
    (Pass /\ last.planBuilt) =>
        \A p \in LastPods :
            /\ p.role = "" => Priority(p) = emptyPriority
            /\ (p.role # "" /\ ~InSpec(p)) => Priority(p) = 0
            /\ Unlabelled(p) =>
                   /\ \A q \in LastPods :
                         ~Unlabelled(q) => PlaceOf(p.name) < PlaceOf(q.name)
                   /\ Strategy = BestEffortParallelStrategy => BatchOf(p.name) = 1

\* what the code does instead: under a role spec without a leader name the
\* empty label has the leader priority, and a pod without role label is deleted
\* in the last batch, after a follower
C24_UnlabelledLast ==
    /\ Pass /\ last.planBuilt /\ Strategy = BestEffortParallelStrategy
    /\ component.consensusSpec.leader.name = ""
    /\ \E p \in LastPods :
          /\ p.role = "" /\ Priority(p) = leaderPriority
          /\ BatchOf(p.name) = Len(last.batches)
          /\ \E q \in LastPods :
                /\ IsFollowerPod(q) /\ q.role = "follower"
                /\ BatchOf(q.name) < BatchOf(p.name)

\* the last step was a pass of Reconcile on a ClusterVersion
ClusterVersionPass == last.kind = "clusterVersion"

\* the ClusterVersion of the last pass, as the pass left it
Reconciled == clusterVersions[last.index]

\* the pass returned no error and asked for no requeue
ReturnedSuccess == last.err = NoError /\ last.result = ResultDone

\* the pass found Status.ObservedGeneration equal to Generation
FoundObserved == last.before.status.observedGeneration = last.before.generation

\* the pass looked the ClusterDefinition up and did not find it
ClusterDefNotFound == last.lookedUp /\ ~last.clusterDef.exists

\* the phase and the message are those of the validation against the
\* ClusterDefinition of the pass
PhaseOfValidation(clusterVersion) ==
    LET statusMsg == validateClusterVersion(clusterVersion, last.clusterDef)
    IN /\ last.clusterDef.exists
       /\ (clusterVersion.status.phase = AvailablePhase
              /\ clusterVersion.status.message = "") <=> statusMsg = ""
       /\ statusMsg # "" =>
              /\ clusterVersion.status.phase = UnavailablePhase
              /\ clusterVersion.status.message = statusMsg

\* C25 as stated: a pass of Reconcile that returns success leaves
\* ObservedGeneration equal to Generation and the phase Available with an empty
\* message iff the validation reports nothing, otherwise Unavailable with the
\* message; a pass that finds ObservedGeneration equal to Generation writes
\* nothing; a pass that does not find the ClusterDefinition makes the phase
\* Unavailable, leaves ObservedGeneration and returns an error
C25_ReconcileOutcome ==
    ClusterVersionPass =>
        /\ ReturnedSuccess =>
               /\ Reconciled.status.observedGeneration = Reconciled.generation
               /\ PhaseOfValidation(Reconciled)
        /\ FoundObserved => (last.patches = 0 /\ Reconciled = last.before)
        /\ ClusterDefNotFound =>
               /\ Reconciled.status.phase = UnavailablePhase
               /\ Reconciled.status.observedGeneration
                      = last.before.status.observedGeneration
               /\ last.err # NoError

\* C25 amended: the first part holds for a pass that finds ObservedGeneration
\* different from Generation and returns success; a pass that finds them equal
\* writes nothing and returns success, whatever the ClusterDefinition has
\* become; a pass that does not find the ClusterDefinition returns an error and
\* leaves ObservedGeneration, and it makes the phase Unavailable with the error
\* as message unless the patch of the status fails
C25_ReconcileOutcomeWhenReached ==
    ClusterVersionPass =>
        /\ (ReturnedSuccess /\ ~FoundObserved) =>
               /\ Reconciled.status.observedGeneration = Reconciled.generation
               /\ PhaseOfValidation(Reconciled)
        /\ FoundObserved =>
               (last.patches = 0 /\ Reconciled = last.before /\ ReturnedSuccess)
        /\ ClusterDefNotFound =>
               /\ last.err # NoError
               /\ Reconciled.status.observedGeneration
                      = last.before.status.observedGeneration
               /\ last.fault.kind # "statusPatch" =>
                      /\ Reconciled.status.phase = UnavailablePhase
                      /\ Reconciled.status.message = ClusterDefNotFoundMessage

C25_Witness ==
    /\ ClusterVersionPass /\ ReturnedSuccess /\ ~FoundObserved
    /\ last.before.status.message = ClusterDefNotFoundMessage
    /\ last.before.status.phase = UnavailablePhase
    /\ Reconciled.status.phase = AvailablePhase
    /\ Reconciled.status.observedGeneration = Reconciled.generation
    /\ \E j \in ClusterVersionIndexes :
          /\ j # last.index
          /\ clusterVersions[j].status.phase = UnavailablePhase
          /\ clusterVersions[j].status.observedGeneration = clusterVersions[j].generation

\* the last step was a call of clusterVersionUpdateHandler
HandlerCall == last.kind = "handler"

\* the ClusterVersions of the list whose Status.ClusterDefGeneration was not the
\* generation of the ClusterDefinition when the handler was called
Outdated ==
    {k \in 1 .. Len(last.before) :
        /\ last.before[k].labelled
        /\ last.before[k].status.clusterDefGeneration # last.clusterDef.generation}

\* the ClusterVersion whose status patch failed; past the list when none failed
FailedItem ==
    IF last.fault.kind = "statusPatch"
    THEN CHOOSE k \in Outdated :
             Cardinality({j \in Outdated : j <= k}) = last.fault.at
    ELSE Len(last.before) + 1

\* the k-th ClusterVersion differs from what it was in its status at most
SpecKept(k) ==
    clusterVersions[k] = [last.before[k] EXCEPT !.status = clusterVersions[k].status]

\* C26: a call of clusterVersionUpdateHandler for a ClusterDefinition at
\* generation G leaves every ClusterVersion alone that is not in the list or
\* whose ClusterDefGeneration is G; each other one, up to the first whose status
\* patch fails, becomes Available with an empty message and ClusterDefGeneration
\* G when the validation reports nothing, and otherwise Unavailable with the
\* message, which is not empty, ClusterDefGeneration as it was; a failing patch
\* ends the call with its error, that ClusterVersion and the ones after it as
\* they were
C26_HandlerOutcome ==
    HandlerCall =>
        /\ last.err = (IF last.fault.kind = "statusPatch" THEN PatchError ELSE NoError)
        /\ \A k \in 1 .. Len(last.before) :
              IF k \notin Outdated \/ k >= FailedItem
              THEN clusterVersions[k] = last.before[k]
              ELSE LET statusMsg == validateClusterVersion(last.before[k], last.clusterDef)
                       st == clusterVersions[k].status
                   IN /\ SpecKept(k)
                      /\ st.observedGeneration = last.before[k].status.observedGeneration
                      /\ IF statusMsg = ""
                         THEN /\ st.phase = AvailablePhase /\ st.message = ""
                              /\ st.clusterDefGeneration = last.clusterDef.generation
                         ELSE /\ st.phase = UnavailablePhase
                              /\ st.message = statusMsg /\ st.message # ""
                              /\ st.clusterDefGeneration
                                     = last.before[k].status.clusterDefGeneration
                              /\ st.clusterDefGeneration # last.clusterDef.generation

C26_Witness ==
    /\ HandlerCall /\ last.fault.kind = "statusPatch" /\ last.err = PatchError
    /\ Outdated = {1, 2} /\ FailedItem = 2
    /\ last.before[1].status.phase = AvailablePhase
    /\ clusterVersions[1].status.phase = UnavailablePhase
    /\ clusterVersions[1].status.clusterDefGeneration = 1
    /\ last.clusterDef.generation = 2
    /\ clusterVersions[2] = last.before[2]

====
